---- MODULE Spec2Model ----
(***************************************************************************)
(* Model of curvas.py: the disbursement-curve script.  One run of the      *)
(* script reads the workbook, enriches it (load_data), aggregates it into  *)
(* cohort rows (general_summary, datamodelo_sumary), fits the logistic     *)
(* model and adds one trace per fitted curve to the figure.                *)
(*                                                                         *)
(* Numbers: amounts are integers; the quotient d = total / approval is     *)
(* kept as the exact pair (n, m) and compared as IEEE division compares    *)
(* it (x/0 = +-inf, 0/0 = NaN, NaN compares false).  A missing cell (NaN,  *)
(* NaT) is a record with its na / nat flag set.                            *)
(***************************************************************************)
EXTENDS Integers, Sequences, FiniteSets, TLC

VARIABLES pc, sheet, data, categories, general_summary, general_summary_sorted,
          group_queue, group_summaries, fig, color_index, error

vars == <<pc, sheet, data, categories, general_summary, general_summary_sorted,
          group_queue, group_summaries, fig, color_index, error>>

(* ------------------------------ bounds --------------------------------- *)

\* rows of the workbook in the aggregation specifications
MaxRows == 2

\* rows of the workbook in the date specification
MaxDateRows == 3

\* rows of the workbook in the specification of the whole run
MaxSheetRows == 3

(* ------------------------------ cells ---------------------------------- *)

Num(v) == [na |-> FALSE, v |-> v]

NaN == [na |-> TRUE, v |-> 0]

Date(y, m, d) == [nat |-> FALSE, y |-> y, m |-> m, d |-> d]

NaT == [nat |-> TRUE, y |-> 0, m |-> 0, d |-> 0]

IsLeap(y) == (y % 4 = 0) /\ ((y % 100 # 0) \/ (y % 400 = 0))

DaysInMonth(y, m) ==
    IF m = 2 THEN (IF IsLeap(y) THEN 29 ELSE 28)
    ELSE IF m \in {4, 6, 9, 11} THEN 30 ELSE 31

RECURSIVE DaysBeforeMonth(_, _)
DaysBeforeMonth(y, m) ==
    IF m = 1 THEN 0 ELSE DaysBeforeMonth(y, m - 1) + DaysInMonth(y, m - 1)

DaysBeforeYear(y) ==
    365 * (y - 1) + ((y - 1) \div 4) - ((y - 1) \div 100) + ((y - 1) \div 400)

\* the day number of a calendar date (proleptic Gregorian ordinal)
Ordinal(dt) == DaysBeforeYear(dt.y) + DaysBeforeMonth(dt.y, dt.m) + dt.d

(* ------------------------------ load_data ------------------------------ *)

\* data['fecha_desembolso'].dt.year.astype(int) raises when a date is NaT
YearCastFails(sh) == \E i \in 1..Len(sh) : sh[i].fecha_desembolso.nat

\* (fecha_desembolso - fecha_aprobacion).dt.days // 30, NaN when a date is NaT
MonthsSinceApproval(r) ==
    IF r.fecha_desembolso.nat \/ r.fecha_aprobacion.nat THEN NaN
    ELSE Num((Ordinal(r.fecha_desembolso) - Ordinal(r.fecha_aprobacion)) \div 30)

EnrichRow(r) ==
    [IDOperacion |-> r.IDOperacion,
     monto_desembolsado |-> r.monto_desembolsado,
     monto_aprobacion |-> r.monto_aprobacion,
     sector_name |-> r.sector_name,
     tipo_prestamo |-> r.tipo_prestamo,
     pais |-> r.pais,
     year |-> r.fecha_desembolso.y,
     months_since_approval |-> MonthsSinceApproval(r)]

\* the table load_data returns when it does not raise
load_data(sh) == [i \in 1..Len(sh) |-> EnrichRow(sh[i])]

(* --------------------------- cohort aggregation ------------------------ *)

KeyOf(r) == <<r.IDOperacion, r.year>>

KeyLess(a, b) == a[1] < b[1] \/ (a[1] = b[1] /\ a[2] < b[2])

KeySet(df) == {KeyOf(df[i]) : i \in 1..Len(df)}

RECURSIVE SortKeys(_)
SortKeys(S) ==
    IF S = {} THEN <<>>
    ELSE LET lo == CHOOSE a \in S : \A b \in S : a = b \/ KeyLess(a, b)
         IN <<lo>> \o SortKeys(S \ {lo})

\* the keys in the order of their first row (what sort=False would give)
RECURSIVE KeysInsertionOrder(_)
KeysInsertionOrder(df) ==
    IF df = <<>> THEN <<>>
    ELSE LET front == KeysInsertionOrder(SubSeq(df, 1, Len(df) - 1))
             key == KeyOf(df[Len(df)])
         IN IF \E j \in 1..Len(front) : front[j] = key
            THEN front ELSE Append(front, key)

\* groupby(['IDOperacion', 'year']): one group per key, the keys sorted
GroupKeys(df) == SortKeys(KeySet(df))

RowsOf(df, key) == {i \in 1..Len(df) : KeyOf(df[i]) = key}

RECURSIVE SumAmount(_, _)
SumAmount(df, I) ==
    IF I = {} THEN 0
    ELSE LET i == CHOOSE x \in I : TRUE
         IN df[i].monto_desembolsado + SumAmount(df, I \ {i})

\* 'first': the first non-null value of the group, NaN when all are null
AggFirst(df, I) ==
    LET ok == {i \in I : ~df[i].monto_aprobacion.na}
    IN IF ok = {} THEN NaN
       ELSE df[CHOOSE i \in ok : \A j \in ok : i <= j].monto_aprobacion

AggMin(df, I) ==
    LET ok == {i \in I : ~df[i].months_since_approval.na}
    IN IF ok = {} THEN NaN
       ELSE df[CHOOSE i \in ok : \A j \in ok :
                 df[i].months_since_approval.v <= df[j].months_since_approval.v
              ].months_since_approval

\* 'max': the largest non-null value of the group, NaN when all are null
AggMax(df, I) ==
    LET ok == {i \in I : ~df[i].months_since_approval.na}
    IN IF ok = {} THEN NaN
       ELSE df[CHOOSE i \in ok : \A j \in ok :
                 df[i].months_since_approval.v >= df[j].months_since_approval.v
              ].months_since_approval

\* .groupby([...], as_index=False).agg({...}).rename(...)
Grouped(df) ==
    LET keys == GroupKeys(df)
    IN [j \in 1..Len(keys) |->
          [IDOperacion |-> keys[j][1],
           year |-> keys[j][2],
           cumulative_disbursement_year |-> SumAmount(df, RowsOf(df, keys[j])),
           approval_amount |-> AggFirst(df, RowsOf(df, keys[j])),
           k |-> AggMax(df, RowsOf(df, keys[j]))]]

RECURSIVE SumYear(_, _)
SumYear(g, J) ==
    IF J = {} THEN 0
    ELSE LET j == CHOOSE x \in J : TRUE
         IN g[j].cumulative_disbursement_year + SumYear(g, J \ {j})

\* a running sum over all the rows above, whatever their operation
CumSumAllRows(g, j) == SumYear(g, 1..j)

\* groupby('IDOperacion')[...].cumsum(): the running sum, in row order, over
\* the rows of the same operation
CumSum(g, j) ==
    SumYear(g, {i \in 1..j : g[i].IDOperacion = g[j].IDOperacion})

\* cumulative_disbursement_total / approval_amount
Quotient(total, approval) == [n |-> total, m |-> approval]

WithTotals(g) ==
    [j \in 1..Len(g) |->
       [IDOperacion |-> g[j].IDOperacion,
        year |-> g[j].year,
        cumulative_disbursement_year |-> g[j].cumulative_disbursement_year,
        approval_amount |-> g[j].approval_amount,
        k |-> g[j].k,
        cumulative_disbursement_total |-> CumSum(g, j),
        d |-> Quotient(CumSum(g, j), g[j].approval_amount)]]

\* d <= 1.0
DLeqOne(d) ==
    IF d.m.na THEN FALSE
    ELSE IF d.m.v > 0 THEN d.n <= d.m.v
    ELSE IF d.m.v < 0 THEN d.n >= d.m.v
    ELSE d.n < 0

\* d is neither NaN nor +-inf
DFinite(d) == ~d.m.na /\ d.m.v # 0

\* k >= 0
KGeqZero(k) == ~k.na /\ k.v >= 0

KeepWhenKValid(row) == KGeqZero(row.k)

\* (summary['d'] <= 1.0) & (summary['k'] >= 0)
Valid(row) == DLeqOne(row.d) /\ KGeqZero(row.k)

RECURSIVE Filter(_)
Filter(t) ==
    IF t = <<>> THEN <<>>
    ELSE LET front == Filter(SubSeq(t, 1, Len(t) - 1))
         IN IF Valid(t[Len(t)]) THEN Append(front, t[Len(t)]) ELSE front

\* the cohort table of a data frame before the validity filter
Unfiltered(df) == WithTotals(Grouped(df))

\* general_summary / datamodelo_sumary: the filtered cohort table
Summary(df) == Filter(Unfiltered(df))

(* ------------------------------ grouping ------------------------------- *)

Categories == {"General", "Sectores", "Tipos de Préstamo", "Países"}

\* group_column for the selected category; "None" for "General"
GroupColumn(cat) ==
    IF cat = "Sectores" THEN "sector_name"
    ELSE IF cat = "Tipos de Préstamo" THEN "tipo_prestamo"
    ELSE IF cat = "Países" THEN "pais"
    ELSE "None"

GroupColumns == {"sector_name", "tipo_prestamo", "pais"}

\* the values a grouping column takes in the workbooks drawn, in ascending order
ColumnValues(col) ==
    IF col = "sector_name" THEN <<"Mercado y Competitividad", "Sector Social">>
    ELSE IF col = "tipo_prestamo" THEN <<"No Soberano", "Soberano">>
    ELSE <<"Bolivia", "Uruguay">>

\* sector_abbreviations.get(name, name)
Abbreviate(name) ==
    CASE name = "Infraestructura y Medio Ambiente" -> "infra"
      [] name = "Sector Social" -> "social"
      [] name = "Gobernanza e Instituciones" -> "gob"
      [] name = "Mercado y Competitividad" -> "merc"
      [] name = "Integración Regional" -> "int"
      [] OTHER -> name

\* str.lower()
Lower(name) ==
    CASE name = "No Soberano" -> "no soberano"
      [] name = "Soberano" -> "soberano"
      [] name = "Bolivia" -> "bolivia"
      [] name = "Uruguay" -> "uruguay"
      [] OTHER -> name

\* the name under which the curve of a group is added to the figure
TraceName(col, name) ==
    Lower(IF col = "sector_name" THEN Lower(Abbreviate(name)) ELSE name)

RECURSIVE SelectRows(_, _, _)
SelectRows(df, col, name) ==
    IF df = <<>> THEN <<>>
    ELSE LET front == SelectRows(SubSeq(df, 1, Len(df) - 1), col, name)
         IN IF df[Len(df)][col] = name THEN Append(front, df[Len(df)]) ELSE front

\* the group keys of data.groupby(group_column), ascending
RECURSIVE PresentValues(_, _, _)
PresentValues(df, col, vals) ==
    IF vals = <<>> THEN <<>>
    ELSE LET rest == PresentValues(df, col, Tail(vals))
         IN IF \E i \in 1..Len(df) : df[i][col] = Head(vals)
            THEN <<Head(vals)>> \o rest ELSE rest

GroupNames(df, col) == PresentValues(df, col, ColumnValues(col))

\* group_df of one iteration, aggregated and filtered
DataModeloSumary(df, col, name) == Summary(SelectRows(df, col, name))

(* ------------------------------ curve fit ------------------------------ *)

NumParams == 3

MinGroupPoints == 3

\* what curve_fit(logistic_model, k, d, p0, maxfev=2000) can do on a cohort
\* table: it rejects non-finite ydata, it rejects fewer points than
\* parameters, and otherwise the solver converges or gives up after maxfev
\* evaluations
CurveFitOutcomes(t) ==
    IF \E j \in 1..Len(t) : ~DFinite(t[j].d) THEN {"ValueError"}
    ELSE IF Len(t) < NumParams THEN {"TypeError"}
    ELSE {"ok", "RuntimeError"}

RECURSIVE InsertByK(_, _)
InsertByK(s, row) ==
    IF s = <<>> THEN <<row>>
    ELSE IF s[Len(s)].k.v <= row.k.v THEN Append(s, row)
    ELSE Append(InsertByK(SubSeq(s, 1, Len(s) - 1), row), s[Len(s)])

\* sort_values(by='k')
RECURSIVE SortByK(_)
SortByK(t) ==
    IF t = <<>> THEN <<>>
    ELSE InsertByK(SortByK(SubSeq(t, 1, Len(t) - 1)), t[Len(t)])

Undefined == [defined |-> FALSE, rows |-> <<>>]

Defined(t) == [defined |-> TRUE, rows |-> t]

\* go.Scatter(x=sorted['k'], y=sorted['hd_k'], name=...)
Trace(name, sorted) == [name |-> name, x |-> [j \in 1..Len(sorted) |-> sorted[j].k.v]]

(* ------------------------------ workbooks ------------------------------ *)

Attributes ==
    {[sector_name |-> "Sector Social", tipo_prestamo |-> "Soberano", pais |-> "Bolivia"],
     [sector_name |-> "Mercado y Competitividad", tipo_prestamo |-> "No Soberano",
      pais |-> "Uruguay"]}

Row(op, disb, appr, amount, approved, a) ==
    [IDOperacion |-> op, fecha_desembolso |-> disb, fecha_aprobacion |-> appr,
     monto_desembolsado |-> amount, monto_aprobacion |-> approved,
     sector_name |-> a.sector_name, tipo_prestamo |-> a.tipo_prestamo, pais |-> a.pais]

Operations == {1, 2}

\* rows of the whole-run specification: missing dates, amounts below and above
\* the approved amount
RunRows ==
    {Row(op, disb, appr, amount, Num(100), a) :
        op \in Operations,
        disb \in {Date(2020, 4, 1), Date(2021, 4, 1), NaT},
        appr \in {Date(2020, 1, 1), NaT},
        amount \in {50, 150},
        a \in Attributes}

\* rows of the aggregation specification: reversals, zero and missing
\* approved amounts, two years
AggRows ==
    {Row(op, disb, Date(2020, 1, 1), amount, approved, a) :
        op \in Operations,
        disb \in {Date(2020, 4, 1), Date(2021, 4, 1)},
        amount \in {-50, 50, 150},
        approved \in {Num(0), Num(100), NaN},
        a \in Attributes}

\* rows of the date specification: two disbursements in one year and one in
\* the next, approval before and after the disbursement
DateRows ==
    {Row(op, disb, appr, 50, Num(100), a) :
        op \in Operations,
        disb \in {Date(2020, 4, 1), Date(2020, 10, 1), Date(2021, 4, 1)},
        appr \in {Date(2020, 1, 1), Date(2020, 7, 1)},
        a \in Attributes}

(* ------------------------------ the run -------------------------------- *)

Init ==
    /\ pc = "read_excel"
    /\ sheet = <<>>
    /\ data = <<>>
    /\ categories = "General"
    /\ general_summary = <<>>
    /\ general_summary_sorted = Undefined
    /\ group_queue = <<>>
    /\ group_summaries = <<>>
    /\ fig = <<>>
    /\ color_index = 0
    /\ error = "none"

Raise(exc) ==
    /\ pc' = "raised"
    /\ error' = exc

\* pd.read_excel(file_path): one more row of the workbook
ReadRowFrom(rows, max) ==
    /\ pc = "read_excel"
    /\ Len(sheet) < max
    /\ \E r \in rows : sheet' = Append(sheet, r)
    /\ UNCHANGED <<pc, data, categories, general_summary, general_summary_sorted,
                   group_queue, group_summaries, fig, color_index, error>>

ReadRow == ReadRowFrom(RunRows, MaxSheetRows)

\* load_data after the workbook is read
LoadData ==
    /\ pc = "read_excel"
    /\ IF YearCastFails(sheet)
       THEN /\ Raise("IntCastingNaNError")
            /\ UNCHANGED data
       ELSE /\ data' = load_data(sheet)
            /\ pc' = "selectbox"
            /\ UNCHANGED error
    /\ UNCHANGED <<sheet, categories, general_summary, general_summary_sorted,
                   group_queue, group_summaries, fig, color_index>>

\* st.sidebar.selectbox, then general_summary
GeneralSummary ==
    /\ pc = "selectbox"
    /\ \E cat \in Categories : categories' = cat
    /\ general_summary' = Summary(data)
    /\ pc' = "general_fit"
    /\ UNCHANGED <<sheet, data, general_summary_sorted, group_queue, group_summaries,
                   fig, color_index, error>>

\* the general fit, skipped when general_summary is empty; then the start of
\* the loop over data.groupby(group_column)
GeneralFit ==
    /\ pc = "general_fit"
    /\ LET queue == IF GroupColumn(categories) = "None" THEN <<>>
                    ELSE GroupNames(data, GroupColumn(categories))
       IN IF general_summary = <<>>
          THEN /\ pc' = "groups"
               /\ group_queue' = queue
               /\ UNCHANGED <<general_summary_sorted, error>>
          ELSE \E outcome \in CurveFitOutcomes(general_summary) :
                 IF outcome = "ok"
                 THEN /\ general_summary_sorted' = Defined(SortByK(general_summary))
                      /\ pc' = "groups"
                      /\ group_queue' = queue
                      /\ UNCHANGED error
                 ELSE /\ Raise(outcome)
                      /\ UNCHANGED <<general_summary_sorted, group_queue>>
    /\ UNCHANGED <<sheet, data, categories, general_summary, group_summaries,
                   fig, color_index>>

\* one iteration of the loop over the groups
GroupIteration ==
    /\ pc = "groups"
    /\ group_queue # <<>>
    /\ LET col == GroupColumn(categories)
           group_name == Head(group_queue)
           datamodelo_sumary == DataModeloSumary(data, col, group_name)
       IN /\ group_summaries' = Append(group_summaries,
                                       [name |-> group_name, rows |-> datamodelo_sumary])
          /\ IF Len(datamodelo_sumary) >= MinGroupPoints
             THEN \E outcome \in CurveFitOutcomes(datamodelo_sumary) :
                    IF outcome = "ok"
                    THEN /\ fig' = Append(fig, Trace(TraceName(col, group_name),
                                                     SortByK(datamodelo_sumary)))
                         /\ color_index' = IF col = "pais" THEN color_index
                                           ELSE color_index + 1
                         /\ UNCHANGED <<pc, error>>
                    ELSE /\ Raise(outcome)
                         /\ UNCHANGED <<fig, color_index>>
             ELSE UNCHANGED <<pc, error, fig, color_index>>
    /\ group_queue' = Tail(group_queue)
    /\ UNCHANGED <<sheet, data, categories, general_summary, general_summary_sorted>>

\* fig.add_trace of the general curve, after the loop; then the chart is shown
GeneralTrace ==
    /\ pc = "groups"
    /\ group_queue = <<>>
    /\ IF general_summary_sorted.defined
       THEN /\ fig' = Append(fig, Trace("general", general_summary_sorted.rows))
            /\ pc' = "shown"
            /\ UNCHANGED error
       ELSE /\ Raise("NameError")
            /\ UNCHANGED fig
    /\ UNCHANGED <<sheet, data, categories, general_summary, general_summary_sorted,
                   group_queue, group_summaries, color_index>>

Next == ReadRow \/ LoadData \/ GeneralSummary \/ GeneralFit \/ GroupIteration
        \/ GeneralTrace

Spec == Init /\ [][Next]_vars

(* ------------------- the aggregation applied to a table ---------------- *)

RECURSIVE AllSummaries(_, _)
AllSummaries(df, cols) ==
    IF cols = {} THEN <<>>
    ELSE LET col == CHOOSE c \in cols : TRUE
             names == GroupNames(df, col)
         IN [j \in 1..Len(names) |->
               [name |-> names[j], rows |-> DataModeloSumary(df, col, names[j])]]
            \o AllSummaries(df, cols \ {col})

\* load_data, general_summary and the datamodelo_sumary of every group of
\* every grouping column, on a workbook all of whose dates parse
Aggregate ==
    /\ pc = "read_excel"
    /\ ~YearCastFails(sheet)
    /\ data' = load_data(sheet)
    /\ general_summary' = Summary(data')
    /\ group_summaries' = AllSummaries(data', GroupColumns)
    /\ pc' = "aggregated"
    /\ UNCHANGED <<sheet, categories, general_summary_sorted, group_queue, fig,
                   color_index, error>>

ReadRowAgg == ReadRowFrom(AggRows, MaxRows)

NextAgg == ReadRowAgg \/ Aggregate

SpecAgg == Init /\ [][NextAgg]_vars

ReadRowDates == ReadRowFrom(DateRows, MaxDateRows)

NextDates == ReadRowDates \/ Aggregate

SpecDates == Init /\ [][NextDates]_vars

(* ======================= properties of the aggregation ================= *)

Aggregated == pc = "aggregated"

\* 0 <= d, for the quotient d = n / m
DGeqZero(d) ==
    IF d.m.na THEN FALSE
    ELSE IF d.m.v > 0 THEN d.n >= 0
    ELSE IF d.m.v < 0 THEN d.n <= 0
    ELSE d.n > 0

\* the rows of data that belong to the group of a group_summaries entry
InGroup(r, name) == r.sector_name = name \/ r.tipo_prestamo = name \/ r.pais = name

GroupRows(name) == {i \in 1..Len(data) : InGroup(data[i], name)}

\* every cohort table of the state with the rows of data it was computed from
Tables ==
    {[rows |-> general_summary, src |-> 1..Len(data)]}
    \cup {[rows |-> group_summaries[j].rows, src |-> GroupRows(group_summaries[j].name)] :
            j \in 1..Len(group_summaries)}

RECURSIVE OfOperation(_, _)
OfOperation(t, op) ==
    IF t = <<>> THEN <<>>
    ELSE LET front == OfOperation(SubSeq(t, 1, Len(t) - 1), op)
         IN IF t[Len(t)].IDOperacion = op THEN Append(front, t[Len(t)]) ELSE front

\* C1 as claimed: every cohort point that survives the validity filter, in the
\* general aggregation and in every per-group aggregation, has 0 <= d <= 1.
C1_DInUnitInterval ==
    Aggregated =>
        \A t \in Tables : \A j \in 1..Len(t.rows) :
            DGeqZero(t.rows[j].d) /\ DLeqOne(t.rows[j].d)

\* C1 amended: every surviving cohort point has d <= 1 and k >= 0, and it has
\* 0 <= d as well when its cumulative total is not negative and its approved
\* amount is positive.
C1_DAtMostOne ==
    Aggregated =>
        \A t \in Tables : \A j \in 1..Len(t.rows) :
            LET row == t.rows[j]
            IN /\ DLeqOne(row.d)
               /\ KGeqZero(row.k)
               /\ (row.cumulative_disbursement_total >= 0
                   /\ ~row.approval_amount.na /\ row.approval_amount.v > 0)
                  => DGeqZero(row.d)

\* a point with d > 1 was dropped and a point with d = 1 was kept
C1_Witness ==
    /\ Aggregated
    /\ \E j \in 1..Len(Unfiltered(data)) :
         LET row == Unfiltered(data)[j]
         IN ~row.approval_amount.na /\ row.approval_amount.v > 0
            /\ row.cumulative_disbursement_total > row.approval_amount.v
    /\ \E j \in 1..Len(general_summary) :
         LET row == general_summary[j]
         IN row.approval_amount.v > 0
            /\ row.cumulative_disbursement_total = row.approval_amount.v
    /\ Len(general_summary) < Len(Unfiltered(data))

\* C2 as claimed: for two cohort points of one operation with year1 < year2,
\* the cumulative total at year1 is <= the cumulative total at year2.
C2_TotalsNonDecreasing ==
    Aggregated =>
        \A t \in Tables : \A i, j \in 1..Len(t.rows) :
            (t.rows[i].IDOperacion = t.rows[j].IDOperacion
             /\ t.rows[i].year < t.rows[j].year)
            => t.rows[i].cumulative_disbursement_total
               <= t.rows[j].cumulative_disbursement_total

\* the sum of the amounts of the rows I of data of one operation and of the
\* years in (lo, hi]
AmountBetween(I, op, lo, hi) ==
    SumAmount(data, {i \in I : data[i].IDOperacion = op
                               /\ lo < data[i].year /\ data[i].year <= hi})

YearsOf(I, op) == {data[i].year : i \in {x \in I : data[x].IDOperacion = op}}

\* C2 amended: for two cohort points of one operation with year1 < year2, the
\* total at year1 is <= the total at year2 provided the operation disbursed a
\* non-negative sum in every year after year1 and up to year2.
C2_TotalsNonDecreasingWithoutReversals ==
    Aggregated =>
        \A t \in Tables : \A i, j \in 1..Len(t.rows) :
            LET op == t.rows[i].IDOperacion
            IN (t.rows[j].IDOperacion = op
                /\ t.rows[i].year < t.rows[j].year
                /\ \A y \in YearsOf(t.src, op) :
                      (t.rows[i].year < y /\ y <= t.rows[j].year)
                      => AmountBetween(t.src, op, y - 1, y) >= 0)
               => t.rows[i].cumulative_disbursement_total
                  <= t.rows[j].cumulative_disbursement_total

\* an operation with cohort points in two years whose total grows
C2_Witness ==
    /\ Aggregated
    /\ \E i, j \in 1..Len(general_summary) :
         /\ general_summary[i].IDOperacion = general_summary[j].IDOperacion
         /\ general_summary[i].year < general_summary[j].year
         /\ general_summary[i].cumulative_disbursement_total
            < general_summary[j].cumulative_disbursement_total

\* C7: every cohort row whose approval_amount is zero or missing is dropped
\* from the aggregation output.
C7_ZeroOrMissingApprovalDropped ==
    Aggregated =>
        \A t \in Tables : \A j \in 1..Len(t.rows) :
            ~t.rows[j].approval_amount.na /\ t.rows[j].approval_amount.v # 0

\* C9: in the general and in every per-group aggregation, the cumulative total
\* of the cohort row (operation, year) is the sum of the disbursed amounts of
\* all the aggregated records of that operation with a year <= that year,
\* whatever the order of the records.
C9_TotalIsSumUpToYear ==
    Aggregated =>
        \A t \in Tables : \A j \in 1..Len(t.rows) :
            t.rows[j].cumulative_disbursement_total
            = SumAmount(data, {i \in t.src :
                                 data[i].IDOperacion = t.rows[j].IDOperacion
                                 /\ data[i].year <= t.rows[j].year})

\* the workbook lists a later year of an operation before an earlier one, and
\* the later year's cohort row carries both amounts
C9_Witness ==
    /\ Aggregated
    /\ \E a, b \in 1..Len(data) :
         /\ a < b
         /\ data[a].IDOperacion = data[b].IDOperacion
         /\ data[a].year > data[b].year
         /\ data[a].monto_desembolsado > 0
         /\ data[b].monto_desembolsado > 0
         /\ \E j \in 1..Len(general_summary) :
              /\ general_summary[j].IDOperacion = data[a].IDOperacion
              /\ general_summary[j].year = data[a].year
              /\ general_summary[j].cumulative_disbursement_total
                 = data[a].monto_desembolsado + data[b].monto_desembolsado

\* the operation has records and all of them are in the group
LiesIn(op, name) ==
    /\ \E i \in 1..Len(data) : data[i].IDOperacion = op
    /\ \A i \in 1..Len(data) : data[i].IDOperacion = op => InGroup(data[i], name)

\* C10: for an operation all of whose records are in one group, the valid
\* cohort points of the group's aggregation are its valid cohort points of
\* the general aggregation; for any operation the group's cumulative total
\* counts the group's records only.
C10_GroupAgreesWithGeneral ==
    Aggregated =>
        \A e \in 1..Len(group_summaries) :
            LET name == group_summaries[e].name
                rows == group_summaries[e].rows
            IN /\ \A op \in Operations :
                    LiesIn(op, name)
                    => OfOperation(rows, op) = OfOperation(general_summary, op)
               /\ \A j \in 1..Len(rows) :
                    rows[j].cumulative_disbursement_total
                    = SumAmount(data, {i \in GroupRows(name) :
                                         data[i].IDOperacion = rows[j].IDOperacion
                                         /\ data[i].year <= rows[j].year})

\* one operation lies in a group and has a valid point there, after another
\* operation in the general table; a second operation is split across two
\* groups and its total in a group is lower than its general total
C10_Witness ==
    /\ Aggregated
    /\ \E e \in 1..Len(group_summaries) : \E op \in Operations :
         /\ LiesIn(op, group_summaries[e].name)
         /\ OfOperation(group_summaries[e].rows, op) # <<>>
         /\ general_summary[1].IDOperacion # op
    /\ \E e \in 1..Len(group_summaries) :
         \E j \in 1..Len(group_summaries[e].rows) : \E g \in 1..Len(general_summary) :
            /\ general_summary[g].IDOperacion = group_summaries[e].rows[j].IDOperacion
            /\ general_summary[g].year = group_summaries[e].rows[j].year
            /\ group_summaries[e].rows[j].cumulative_disbursement_total
               < general_summary[g].cumulative_disbursement_total

\* the two records of the example, in either order and with any attributes
IsExample(sh) ==
    /\ Len(sh) = 2
    /\ \A i \in 1..2 :
         /\ sh[i].IDOperacion = 1
         /\ sh[i].fecha_aprobacion = Date(2020, 1, 1)
         /\ sh[i].monto_desembolsado = 50
         /\ sh[i].monto_aprobacion = Num(100)
    /\ {sh[1].fecha_desembolso, sh[2].fecha_desembolso}
       = {Date(2020, 4, 1), Date(2020, 10, 1)}

\* C8 as claimed: the example yields two cohort points, k = 3 with d = 0.5 and
\* then k = 9 with d = 1.0 and cumulative total 100, both retained.
C8_ExampleTwoPoints ==
    (Aggregated /\ IsExample(sheet)) =>
        /\ Len(general_summary) = 2
        /\ general_summary[1].k = Num(3)
        /\ 2 * general_summary[1].d.n = general_summary[1].d.m.v
        /\ general_summary[2].k = Num(9)
        /\ general_summary[2].d.n = general_summary[2].d.m.v
        /\ general_summary[2].cumulative_disbursement_total = 100

\* C8 amended: both records fall in 2020, so the example yields one cohort
\* point for the operation, with k = 9, cumulative total 100 and d = 1.0, and
\* the filter retains it.
C8_ExampleOnePoint ==
    (Aggregated /\ IsExample(sheet)) =>
        general_summary =
            <<[IDOperacion |-> 1, year |-> 2020,
               cumulative_disbursement_year |-> 100,
               approval_amount |-> Num(100), k |-> Num(9),
               cumulative_disbursement_total |-> 100,
               d |-> [n |-> 100, m |-> Num(100)]]>>

\* the example was aggregated, its rows 91 and 274 days after approval
C8_Witness ==
    /\ Aggregated
    /\ IsExample(sheet)
    /\ {data[1].months_since_approval, data[2].months_since_approval} = {Num(3), Num(9)}
    /\ Len(general_summary) = 1

(* ========================= properties of the run ======================= *)

\* the script ran to the chart, or an exception ended it
Terminated == pc \in {"shown", "raised"}

HasTrace(name) == \E j \in 1..Len(fig) : fig[j].name = name

\* the number of valid cohort points of a group of the selected column
ValidPoints(name) == Len(DataModeloSumary(data, GroupColumn(categories), name))

\* the groups the loop has aggregated
AggregatedGroups == {group_summaries[j].name : j \in 1..Len(group_summaries)}

SelectedGroups ==
    IF GroupColumn(categories) = "None" THEN {}
    ELSE LET names == GroupNames(data, GroupColumn(categories))
         IN {names[j] : j \in 1..Len(names)}

GeneralTableEmpty ==
    /\ pc \notin {"read_excel", "selectbox"}
    /\ error # "IntCastingNaNError"
    /\ general_summary = <<>>

\* C4: when the general cohort table is empty after the validity filter, the
\* run ends without an exception.
C4_EmptyGeneralTableRaisesNothing ==
    (Terminated /\ GeneralTableEmpty) => (pc = "shown" /\ error = "none")

\* the curve fit of a group (the last one aggregated) failed
GroupFitFailed ==
    /\ group_summaries # <<>>
    /\ error \in {"RuntimeError", "ValueError", "TypeError"}

RECURSIVE WithDisbursementDate(_)
WithDisbursementDate(sh) ==
    IF sh = <<>> THEN <<>>
    ELSE LET front == WithDisbursementDate(SubSeq(sh, 1, Len(sh) - 1))
         IN IF sh[Len(sh)].fecha_desembolso.nat THEN front
            ELSE Append(front, sh[Len(sh)])

\* C6: a record whose disbursement date is missing or unparseable does not
\* make the load fail, and the other records are aggregated as if it were
\* absent.
C6_BadDateDoesNotFailTheLoad ==
    (pc # "read_excel" /\ YearCastFails(sheet)) =>
        /\ error # "IntCastingNaNError"
        /\ pc \notin {"selectbox", "raised"}
           => general_summary = Summary(load_data(WithDisbursementDate(sheet)))

====
